---- MODULE Spec2Model ----
(***************************************************************************)
(* A model of the process-wide logger of src/src/lib.rs: the two global    *)
(* cells LOG_LEVEL and LOG_PATH, each behind its own mutex, the setters    *)
(* set_level and set_path, and log, which reads both cells, filters the    *)
(* message by level, prints it and appends it to a file.                   *)
(*                                                                         *)
(* Threads call the three functions in any interleaving.  A call is split  *)
(* at the points where another thread can observe or disturb it: taking    *)
(* and leaving a mutex, the two words of the String behind LOG_PATH, the   *)
(* console write, the open of the file and the two write calls that        *)
(* writeln! makes on an unbuffered File (the text, then the line feed).    *)
(***************************************************************************)
EXTENDS Integers, Sequences, FiniteSets, TLC

\* ------------------------------------------------------------------ bounds
\* At most MaxLogs calls of log and MaxSets calls of a setter are started.
MaxLogs == 2
MaxSets == 2

\* At most MaxAppends calls of log are started where all calls append to
\* one file.
MaxAppends == 3

\* ------------------------------------------------------------ value sets
Threads == {"t1", "t2"}
NoThread == "none"

LogLevel == {"Verbose", "Debug", "Default", "ErrorsOnly"}
LogType == {"Info", "Debug", "Warning", "Error"}

\* Paths that open(append, create) accepts, and one that it rejects.
FilePaths == {"a.log", "b.log"}
BadPath == "/no/dir/c.log"

\* The strings the model passes to set_path, and those it passes to log as
\* an override.
StoredPaths == {"", "a.log", BadPath}
OverridePaths == {"", "b.log", BadPath}

\* Option<&str>: None, or Some(s).
None == [some |-> FALSE, val |-> ""]
Some(s) == [some |-> TRUE, val |-> s]
Overrides == {None} \cup {Some(s) : s \in OverridePaths}

Messages == {"x"}
Times == {"2024-02-21 12:05:51"}

\* A file that does not exist, as opposed to an empty one.
NoFile == <<"<absent>">>
LF == "\n"

\* No setter call has stored a value in the cell yet.
Never == "<never>"

\* An argument or local of a call that is not running.
NoValue == "<unset>"

\* Result<String, io::Error>, and "no call has returned yet".
NoRet == [kind |-> "none", val |-> ""]
Ok(s) == [kind |-> "ok", val |-> s]
Err == [kind |-> "err", val |-> ""]

\* ------------------------------------------------------------- variables
VARIABLES
    LOG_LEVEL,          \* the LogLevel inside the level mutex
    LOG_PATH,           \* the String inside the path mutex: [ptr, len]
    level_mutex,        \* the thread that holds LOG_LEVEL's mutex, or NoThread
    path_mutex,         \* the thread that holds LOG_PATH's mutex, or NoThread
    pc,                 \* per thread: where it is in its current call
    message, t, p,      \* per thread: the arguments of its log call
    arg,                \* per thread: the argument of its setter call
    default_path,       \* per thread: log's clone of LOG_PATH, [ptr, len]
    path,               \* per thread: log's effective path
    formatted_message,  \* per thread: log's formatted line
    level,              \* per thread: log's clone of LOG_LEVEL
    appended,           \* per thread: the chunks its log call has written
    ret,                \* per thread: what its last log call returned
    stdout, stderr,     \* the lines printed so far
    fs,                 \* per file path: the chunks written so far, or NoFile
    nlogs, nsets,       \* calls started so far
    last_set,           \* per cell: the argument of the last completed setter
    last_log            \* per thread: path and line of its last appended call

globals == <<LOG_LEVEL, LOG_PATH>>
mutexes == <<level_mutex, path_mutex>>
args == <<message, t, p, arg>>
locals == <<default_path, path, formatted_message, level, appended>>
sinks == <<stdout, stderr, fs>>
counts == <<nlogs, nsets>>
vars == <<LOG_LEVEL, LOG_PATH, level_mutex, path_mutex, pc, message, t, p, arg,
          default_path, path, formatted_message, level, appended, ret,
          stdout, stderr, fs, nlogs, nsets, last_set, last_log>>

\* ------------------------------------------------------ String and Display
\* A String is a buffer and a length; the buffer is named by its content.
StringOf(s) == [ptr |-> s, len |-> Len(s)]

\* A test for the empty path that never finds it empty.
IsEmptyStringNever(r) == FALSE

\* path != String::new(): a String is empty when its length is 0.
IsEmptyString(r) == r.len = 0

\* The text of a String whose two words belong together.
TextOf(r) == IF r.len = 0 THEN "" ELSE r.ptr

\* impl fmt::Display for LogType
DisplayName(ty) ==
    CASE ty = "Info" -> "INFO"
      [] ty = "Debug" -> "DEBUG"
      [] ty = "Warning" -> "WARNING"
      [] ty = "Error" -> "ERROR"

\* format!("[{log_type}] {time} -> {message}")
Format(ty, time, m) == "[" \o DisplayName(ty) \o "] " \o time \o " -> " \o m

\* The match with the Debug arm lost: level Debug lets Info through.
SuppressedNoDebugArm(lv, ty) ==
    CASE lv = "ErrorsOnly" -> ty # "Error"
      [] lv = "Default" -> (ty = "Debug" \/ ty = "Info")
      [] OTHER -> FALSE

\* The match on level: TRUE when log returns Ok("") before any output.
Suppressed(lv, ty) ==
    CASE lv = "ErrorsOnly" -> ty # "Error"
      [] lv = "Default" -> (ty = "Debug" \/ ty = "Info")
      [] lv = "Debug" -> ty = "Info"
      [] OTHER -> FALSE

\* A logger that starts at the level Verbose.
InitVerbose ==
    /\ LOG_LEVEL = "Verbose"
    /\ LOG_PATH = StringOf("")
    /\ level_mutex = NoThread
    /\ path_mutex = NoThread
    /\ pc = [th \in Threads |-> "idle"]
    /\ message = [th \in Threads |-> NoValue]
    /\ t = [th \in Threads |-> NoValue]
    /\ p = [th \in Threads |-> None]
    /\ arg = [th \in Threads |-> NoValue]
    /\ default_path = [th \in Threads |-> StringOf("")]
    /\ path = [th \in Threads |-> StringOf("")]
    /\ formatted_message = [th \in Threads |-> NoValue]
    /\ level = [th \in Threads |-> NoValue]
    /\ appended = [th \in Threads |-> <<>>]
    /\ ret = [th \in Threads |-> NoRet]
    /\ stdout = <<>>
    /\ stderr = <<>>
    /\ fs = [f \in FilePaths |-> NoFile]
    /\ nlogs = 0
    /\ nsets = 0
    /\ last_set = [level |-> Never, path |-> Never]
    /\ last_log = [th \in Threads |-> [path |-> Never, line |-> ""]]

\* ------------------------------------------------------------------ Init
Init ==
    /\ LOG_LEVEL = "Default"
    /\ LOG_PATH = StringOf("")
    /\ level_mutex = NoThread
    /\ path_mutex = NoThread
    /\ pc = [th \in Threads |-> "idle"]
    /\ message = [th \in Threads |-> NoValue]
    /\ t = [th \in Threads |-> NoValue]
    /\ p = [th \in Threads |-> None]
    /\ arg = [th \in Threads |-> NoValue]
    /\ default_path = [th \in Threads |-> StringOf("")]
    /\ path = [th \in Threads |-> StringOf("")]
    /\ formatted_message = [th \in Threads |-> NoValue]
    /\ level = [th \in Threads |-> NoValue]
    /\ appended = [th \in Threads |-> <<>>]
    /\ ret = [th \in Threads |-> NoRet]
    /\ stdout = <<>>
    /\ stderr = <<>>
    /\ fs = [f \in FilePaths |-> NoFile]
    /\ nlogs = 0
    /\ nsets = 0
    /\ last_set = [level |-> Never, path |-> Never]
    /\ last_log = [th \in Threads |-> [path |-> Never, line |-> ""]]

\* A call returns: its arguments and locals go out of scope.
DropFrame(th) ==
    /\ message' = [message EXCEPT ![th] = NoValue]
    /\ t' = [t EXCEPT ![th] = NoValue]
    /\ p' = [p EXCEPT ![th] = None]
    /\ arg' = [arg EXCEPT ![th] = NoValue]
    /\ default_path' = [default_path EXCEPT ![th] = StringOf("")]
    /\ path' = [path EXCEPT ![th] = StringOf("")]
    /\ formatted_message' = [formatted_message EXCEPT ![th] = NoValue]
    /\ level' = [level EXCEPT ![th] = NoValue]
    /\ appended' = [appended EXCEPT ![th] = <<>>]
    /\ pc' = [pc EXCEPT ![th] = "idle"]

\* A log call returns r.
Return(th, r) ==
    /\ ret' = [ret EXCEPT ![th] = r]
    /\ DropFrame(th)

\* A log call goes on at label l.
Goto(th, l) ==
    /\ pc' = [pc EXCEPT ![th] = l]
    /\ UNCHANGED <<args, locals, ret>>

\* ----------------------------------------------------------------- Mutex
\* A lock that never makes its caller wait.
MutexNeverHeld(holder) == holder \in Threads \cup {NoThread}

\* Mutex::lock returns only when no thread holds the mutex.
MutexFree(holder) == holder = NoThread

\* ------------------------------------------------------------- set_level
SetLevelCall(th, lv) ==
    /\ pc[th] = "idle"
    /\ nsets < MaxSets
    /\ nsets' = nsets + 1
    /\ arg' = [arg EXCEPT ![th] = lv]
    /\ pc' = [pc EXCEPT ![th] = "sl_lock"]
    /\ UNCHANGED <<globals, mutexes, message, t, p, locals, ret, sinks, nlogs, last_set, last_log>>

\* LOG_LEVEL.lock()
SetLevelLock(th) ==
    /\ pc[th] = "sl_lock"
    /\ MutexFree(level_mutex)
    /\ level_mutex' = th
    /\ pc' = [pc EXCEPT ![th] = "sl_store"]
    /\ UNCHANGED <<globals, path_mutex, args, locals, ret, sinks, counts, last_set, last_log>>

\* The store with the guard leaked: the level mutex stays locked.
SetLevelStoreKeepsGuard(th) ==
    /\ pc[th] = "sl_store"
    /\ LOG_LEVEL' = arg[th]
    /\ last_set' = [last_set EXCEPT !.level = arg[th]]
    /\ DropFrame(th)
    /\ UNCHANGED <<LOG_PATH, mutexes, ret, sinks, counts, last_log>>

\* A level that can be set only once: a later set_level stores nothing.
SetLevelStoreOnce(th) ==
    /\ pc[th] = "sl_store"
    /\ LOG_LEVEL' = IF last_set.level = Never THEN arg[th] ELSE LOG_LEVEL
    /\ level_mutex' = NoThread
    /\ last_set' = [last_set EXCEPT !.level = arg[th]]
    /\ DropFrame(th)
    /\ UNCHANGED <<LOG_PATH, path_mutex, ret, sinks, counts, last_log>>

\* *guard = level; the guard is dropped at the end of the statement.
SetLevelStore(th) ==
    /\ pc[th] = "sl_store"
    /\ LOG_LEVEL' = arg[th]
    /\ level_mutex' = NoThread
    /\ last_set' = [last_set EXCEPT !.level = arg[th]]
    /\ DropFrame(th)
    /\ UNCHANGED <<LOG_PATH, path_mutex, ret, sinks, counts, last_log>>

\* -------------------------------------------------------------- set_path
SetPathCall(th, s) ==
    /\ pc[th] = "idle"
    /\ nsets < MaxSets
    /\ nsets' = nsets + 1
    /\ arg' = [arg EXCEPT ![th] = s]
    /\ pc' = [pc EXCEPT ![th] = "sp_lock"]
    /\ UNCHANGED <<globals, mutexes, message, t, p, locals, ret, sinks, nlogs, last_set, last_log>>

\* LOG_PATH.lock()
SetPathLock(th) ==
    /\ pc[th] = "sp_lock"
    /\ MutexFree(path_mutex)
    /\ path_mutex' = th
    /\ pc' = [pc EXCEPT ![th] = "sp_ptr"]
    /\ UNCHANGED <<globals, level_mutex, args, locals, ret, sinks, counts, last_set, last_log>>

\* *guard = path, first word: the buffer of the new String.
SetPathPtr(th) ==
    /\ pc[th] = "sp_ptr"
    /\ LOG_PATH' = [LOG_PATH EXCEPT !.ptr = StringOf(arg[th]).ptr]
    /\ pc' = [pc EXCEPT ![th] = "sp_len"]
    /\ UNCHANGED <<LOG_LEVEL, mutexes, args, locals, ret, sinks, counts, last_set, last_log>>

\* A set_path that ignores an empty argument and keeps the stored length.
SetPathLenIgnoresEmpty(th) ==
    /\ pc[th] = "sp_len"
    /\ LOG_PATH' = IF arg[th] = "" THEN LOG_PATH
                   ELSE [LOG_PATH EXCEPT !.len = StringOf(arg[th]).len]
    /\ path_mutex' = NoThread
    /\ last_set' = [last_set EXCEPT !.path = arg[th]]
    /\ DropFrame(th)
    /\ UNCHANGED <<LOG_LEVEL, level_mutex, ret, sinks, counts, last_log>>

\* *guard = path, second word: its length; then the guard is dropped.
SetPathLen(th) ==
    /\ pc[th] = "sp_len"
    /\ LOG_PATH' = [LOG_PATH EXCEPT !.len = StringOf(arg[th]).len]
    /\ path_mutex' = NoThread
    /\ last_set' = [last_set EXCEPT !.path = arg[th]]
    /\ DropFrame(th)
    /\ UNCHANGED <<LOG_LEVEL, level_mutex, ret, sinks, counts, last_log>>

\* ------------------------------------------------------------------- log
LogCall(th, m, ty, o) ==
    /\ pc[th] = "idle"
    /\ nlogs' = nlogs + 1
    /\ message' = [message EXCEPT ![th] = m]
    /\ t' = [t EXCEPT ![th] = ty]
    /\ p' = [p EXCEPT ![th] = o]
    /\ ret' = [ret EXCEPT ![th] = NoRet]
    /\ pc' = [pc EXCEPT ![th] = "lg_plock"]
    /\ UNCHANGED <<globals, mutexes, arg, locals, sinks, nsets, last_set, last_log>>

\* A log call that takes both mutexes before it reads the path.
LogLockPathAndLevel(th) ==
    /\ pc[th] = "lg_plock"
    /\ MutexFree(path_mutex) /\ MutexFree(level_mutex)
    /\ path_mutex' = th
    /\ level_mutex' = th
    /\ pc' = [pc EXCEPT ![th] = "lg_pptr"]
    /\ UNCHANGED <<globals, args, locals, ret, sinks, counts, last_set, last_log>>

\* LOG_PATH.lock()
LogLockPath(th) ==
    /\ pc[th] = "lg_plock"
    /\ MutexFree(path_mutex)
    /\ path_mutex' = th
    /\ pc' = [pc EXCEPT ![th] = "lg_pptr"]
    /\ UNCHANGED <<globals, level_mutex, args, locals, ret, sinks, counts, last_set, last_log>>

\* .clone(), first word: the bytes of the stored String.
LogClonePtr(th) ==
    /\ pc[th] = "lg_pptr"
    /\ default_path' = [default_path EXCEPT ![th].ptr = LOG_PATH.ptr]
    /\ pc' = [pc EXCEPT ![th] = "lg_plen"]
    /\ UNCHANGED <<globals, mutexes, args, path, formatted_message, level,
                   appended, ret, sinks, counts, last_set, last_log>>

\* The override used only when no default path is stored.
UnwrapOrDefaultFirst(o, dflt) ==
    IF o.some /\ dflt.len = 0 THEN StringOf(o.val) ELSE dflt

\* An empty override treated like no override.
UnwrapOrNonEmpty(o, dflt) ==
    IF o.some /\ o.val # "" THEN StringOf(o.val) ELSE dflt

\* p.unwrap_or(&default_path)
UnwrapOr(o, dflt) == IF o.some THEN StringOf(o.val) ELSE dflt

\* The guard bound to a name that lives to the end of log: the path mutex
\* stays locked after the clone.
LogCloneLenKeepsGuard(th) ==
    /\ pc[th] = "lg_plen"
    /\ default_path' = [default_path EXCEPT ![th].len = LOG_PATH.len]
    /\ path' = [path EXCEPT ![th] = UnwrapOr(p[th], default_path'[th])]
    /\ pc' = [pc EXCEPT ![th] = "lg_format"]
    /\ UNCHANGED <<globals, mutexes, args, formatted_message, level,
                   appended, ret, sinks, counts, last_set, last_log>>

\* A log call that keeps its override as the new stored path.
LogCloneLenStoresOverride(th) ==
    /\ pc[th] = "lg_plen"
    /\ default_path' = [default_path EXCEPT ![th].len = LOG_PATH.len]
    /\ path_mutex' = NoThread
    /\ path' = [path EXCEPT ![th] = UnwrapOr(p[th], default_path'[th])]
    /\ LOG_PATH' = IF p[th].some THEN path'[th] ELSE LOG_PATH
    /\ pc' = [pc EXCEPT ![th] = "lg_format"]
    /\ UNCHANGED <<LOG_LEVEL, level_mutex, args, formatted_message, level,
                   appended, ret, sinks, counts, last_set, last_log>>

\* .clone(), second word: its length; the guard is dropped; then
\* let path = p.unwrap_or(&default_path).
LogCloneLen(th) ==
    /\ pc[th] = "lg_plen"
    /\ default_path' = [default_path EXCEPT ![th].len = LOG_PATH.len]
    /\ path_mutex' = NoThread
    /\ path' = [path EXCEPT ![th] = UnwrapOr(p[th], default_path'[th])]
    /\ pc' = [pc EXCEPT ![th] = "lg_format"]
    /\ UNCHANGED <<globals, level_mutex, args, formatted_message, level,
                   appended, ret, sinks, counts, last_set, last_log>>

\* Local::now(), timestamp.format(..), format!(..)
LogFormat(th) ==
    /\ pc[th] = "lg_format"
    /\ \E time \in Times :
          formatted_message' =
              [formatted_message EXCEPT ![th] = Format(t[th], time, message[th])]
    /\ pc' = [pc EXCEPT ![th] = "lg_llock"]
    /\ UNCHANGED <<globals, mutexes, args, default_path, path, level,
                   appended, ret, sinks, counts, last_set, last_log>>

\* LOG_LEVEL.lock()
LogLockLevel(th) ==
    /\ pc[th] = "lg_llock"
    /\ MutexFree(level_mutex)
    /\ level_mutex' = th
    /\ pc' = [pc EXCEPT ![th] = "lg_lread"]
    /\ UNCHANGED <<globals, path_mutex, args, locals, ret, sinks, counts, last_set, last_log>>

\* .clone(); the guard is dropped at the end of the statement.
LogReadLevel(th) ==
    /\ pc[th] = "lg_lread"
    /\ level' = [level EXCEPT ![th] = LOG_LEVEL]
    /\ level_mutex' = NoThread
    /\ pc' = [pc EXCEPT ![th] = "lg_match"]
    /\ UNCHANGED <<globals, path_mutex, args, default_path, path,
                   formatted_message, appended, ret, sinks, counts, last_set, last_log>>

\* The match placed after the console write: a suppressed message is
\* printed before the call returns Ok("").
LogMatchAfterPrint(th) ==
    /\ pc[th] = "lg_match"
    /\ IF Suppressed(level[th], t[th])
         THEN /\ Return(th, Ok(""))
              /\ stdout' = Append(stdout, formatted_message[th])
         ELSE /\ Goto(th, "lg_console")
              /\ stdout' = stdout
    /\ UNCHANGED <<globals, mutexes, stderr, fs, counts, last_set, last_log>>

\* A log call that takes the stored path again after the level match.
LogMatchRereadsPath(th) ==
    /\ pc[th] = "lg_match"
    /\ IF Suppressed(level[th], t[th])
         THEN Return(th, Ok(""))
         ELSE /\ pc' = [pc EXCEPT ![th] = "lg_console"]
              /\ default_path' = [default_path EXCEPT ![th] = LOG_PATH]
              /\ path' = [path EXCEPT ![th] = UnwrapOr(p[th], LOG_PATH)]
              /\ UNCHANGED <<args, formatted_message, level, appended, ret>>
    /\ UNCHANGED <<globals, mutexes, sinks, counts, last_set, last_log>>

\* match level { .. }: return Ok("") or fall through.
LogMatch(th) ==
    /\ pc[th] = "lg_match"
    /\ IF Suppressed(level[th], t[th])
         THEN Return(th, Ok(""))
         ELSE Goto(th, "lg_console")
    /\ UNCHANGED <<globals, mutexes, sinks, counts, last_set, last_log>>

\* A console choice that sends warnings to the error stream as well.
ToStderrWarningToo(ty) == ty \in {"Error", "Warning"}

\* match t { Error => eprintln!, _ => println! }
ToStderr(ty) == ty = "Error"

\* The console line, then if path != String::new() { .. } else Ok(..).
LogConsole(th) ==
    /\ pc[th] = "lg_console"
    /\ IF ToStderr(t[th])
         THEN /\ stderr' = Append(stderr, formatted_message[th])
              /\ stdout' = stdout
         ELSE /\ stdout' = Append(stdout, formatted_message[th])
              /\ stderr' = stderr
    /\ IF IsEmptyString(path[th])
         THEN Return(th, Ok(formatted_message[th]))
         ELSE Goto(th, "lg_open")
    /\ UNCHANGED <<globals, mutexes, fs, counts, last_set, last_log>>

\* open(&path) succeeds on the paths of FilePaths and fails on any other
\* (a missing directory, no permission).
CanOpen(f) == f \in FilePaths

\* OpenOptions::new().append(true).create(true).open(&path)?
LogOpen(th) ==
    /\ pc[th] = "lg_open"
    /\ IF CanOpen(TextOf(path[th]))
         THEN /\ fs' = IF fs[TextOf(path[th])] = NoFile
                          THEN [fs EXCEPT ![TextOf(path[th])] = <<>>]
                          ELSE fs
              /\ Goto(th, "lg_write")
         ELSE /\ fs' = fs
              /\ Return(th, Err)
    /\ UNCHANGED <<globals, mutexes, stdout, stderr, counts, last_set, last_log>>

\* writeln! goes through io::Write::write_fmt, which hands each piece of the
\* format string and each argument to write_all on its own; a File has no
\* buffer, so "{}\n" reaches the file as two write calls, the text and the
\* line feed.  Either may fail; a failed write is taken to add nothing.
\*
\* One write call in append mode: the chunk lands at the end of the file.
AppendChunk(files, f, chunk) == [files EXCEPT ![f] = Append(@, chunk)]

\* writeln!(file, "{}", &formatted_message)?, first write: the text.
LogWriteText(th) ==
    /\ pc[th] = "lg_write"
    /\ \E ok \in BOOLEAN :
          IF ok
            THEN /\ fs' = AppendChunk(fs, TextOf(path[th]), formatted_message[th])
                 /\ appended' = [appended EXCEPT ![th] = <<formatted_message[th]>>]
                 /\ pc' = [pc EXCEPT ![th] = "lg_lf"]
                 /\ UNCHANGED <<args, default_path, path, formatted_message,
                                level, ret>>
            ELSE /\ fs' = fs
                 /\ Return(th, Err)
    /\ UNCHANGED <<globals, mutexes, stdout, stderr, counts, last_set, last_log>>

\* writeln!(..)?, second write: the line feed; then Ok(formatted_message).
LogWriteLf(th) ==
    /\ pc[th] = "lg_lf"
    /\ \E ok \in BOOLEAN :
          IF ok
            THEN /\ fs' = AppendChunk(fs, TextOf(path[th]), LF)
                 /\ last_log' = [last_log EXCEPT ![th] =
                                    [path |-> TextOf(path[th]),
                                     line |-> formatted_message[th]]]
                 /\ Return(th, Ok(formatted_message[th]))
            ELSE /\ fs' = fs
                 /\ last_log' = last_log
                 /\ Return(th, Err)
    /\ UNCHANGED <<globals, mutexes, stdout, stderr, counts, last_set>>

\* ------------------------------------------------------------------ Next
Next ==
    \/ \E th \in Threads, lv \in LogLevel : SetLevelCall(th, lv)
    \/ \E th \in Threads : SetLevelLock(th)
    \/ \E th \in Threads : SetLevelStore(th)
    \/ \E th \in Threads, s \in StoredPaths : SetPathCall(th, s)
    \/ \E th \in Threads : SetPathLock(th)
    \/ \E th \in Threads : SetPathPtr(th)
    \/ \E th \in Threads : SetPathLen(th)
    \/ \E th \in Threads, m \in Messages, ty \in LogType, o \in Overrides :
          nlogs < MaxLogs /\ LogCall(th, m, ty, o)
    \/ \E th \in Threads : LogLockPath(th)
    \/ \E th \in Threads : LogClonePtr(th)
    \/ \E th \in Threads : LogCloneLen(th)
    \/ \E th \in Threads : LogFormat(th)
    \/ \E th \in Threads : LogLockLevel(th)
    \/ \E th \in Threads : LogReadLevel(th)
    \/ \E th \in Threads : LogMatch(th)
    \/ \E th \in Threads : LogConsole(th)
    \/ \E th \in Threads : LogOpen(th)
    \/ \E th \in Threads : LogWriteText(th)
    \/ \E th \in Threads : LogWriteLf(th)

Spec == Init /\ [][Next]_vars

\* -------------------------------------------------------------- fairness
\* A step of th that waits for a mutex.
LockStep(th) == SetLevelLock(th) \/ SetPathLock(th) \/ LogLockPath(th) \/ LogLockLevel(th)

\* A step of th's call in progress that waits for nothing.
RunStep(th) ==
    \/ SetLevelStore(th) \/ SetPathPtr(th) \/ SetPathLen(th)
    \/ LogClonePtr(th) \/ LogCloneLen(th) \/ LogFormat(th) \/ LogReadLevel(th)
    \/ LogMatch(th) \/ LogConsole(th) \/ LogOpen(th) \/ LogWriteText(th)
    \/ LogWriteLf(th)

\* Fair scheduling: a thread inside a call keeps running, and a thread that
\* finds the mutex free again and again gets it in the end.  Nothing makes
\* a thread start a call.
Fairness == \A th \in Threads : WF_vars(RunStep(th)) /\ SF_vars(LockStep(th))

\* The calls of a smaller set of arguments, for the checks of progress: a
\* Warning is emitted at level Default and suppressed at ErrorsOnly, the
\* stored path a.log can be opened and the override cannot.
LiveNext ==
    \/ \E th \in Threads : SetLevelCall(th, "ErrorsOnly")
    \/ \E th \in Threads : SetPathCall(th, "a.log")
    \/ \E th \in Threads, o \in {None, Some(BadPath)} :
          nlogs < MaxLogs /\ LogCall(th, "x", "Warning", o)
    \/ \E th \in Threads : LockStep(th) \/ RunStep(th)

FairSpec == Init /\ [][LiveNext]_vars /\ Fairness

\* ------------------------------------------------ appending to one file
\* The steps of a log call in progress.
LogStep(th) ==
    \/ LogLockPath(th) \/ LogClonePtr(th) \/ LogCloneLen(th) \/ LogFormat(th)
    \/ LogLockLevel(th) \/ LogReadLevel(th) \/ LogMatch(th) \/ LogConsole(th)
    \/ LogOpen(th) \/ LogWriteText(th) \/ LogWriteLf(th)

\* Threads that only log, all to the file b.log, at the initial level.
AppendNext ==
    \/ \E th \in Threads, ty \in {"Warning", "Error"} :
          nlogs < MaxAppends /\ LogCall(th, "x", ty, Some("b.log"))
    \/ \E th \in Threads : LogStep(th)

AppendSpec == Init /\ [][AppendNext]_vars

\* ------------------------------------------- the level, then the path
\* The steps of a setter call in progress.
SetterStep(th) ==
    \/ SetLevelLock(th) \/ SetLevelStore(th)
    \/ SetPathLock(th) \/ SetPathPtr(th) \/ SetPathLen(th)

\* From the initial level and path, set_level(L1) with L1 not Default is
\* called once, and after it has returned set_path(P1) with P1 not empty
\* is called once; log calls without override run at any time.
OrderedNext ==
    \/ \E th \in Threads, lv \in LogLevel \ {"Default"} :
          nsets = 0 /\ SetLevelCall(th, lv)
    \/ \E th \in Threads, s \in StoredPaths \ {""} :
          nsets = 1 /\ last_set.level # Never /\ SetPathCall(th, s)
    \/ \E th \in Threads, m \in Messages, ty \in LogType :
          nlogs < MaxLogs /\ LogCall(th, m, ty, None)
    \/ \E th \in Threads : SetterStep(th)
    \/ \E th \in Threads : LogStep(th)

OrderedSpec == Init /\ [][OrderedNext]_vars

\* ------------------------------------------------------- reading a file
\* str::lines() over the chunks of a file: the text between line feeds; a
\* last line needs no line feed, and an empty last line does not count.
RECURSIVE LinesFrom(_, _)
LinesFrom(chunks, cur) ==
    IF chunks = <<>>
      THEN IF cur = "" THEN <<>> ELSE <<cur>>
      ELSE IF Head(chunks) = LF
             THEN <<cur>> \o LinesFrom(Tail(chunks), "")
             ELSE LinesFrom(Tail(chunks), cur \o Head(chunks))

Lines(chunks) == IF chunks = NoFile THEN <<>> ELSE LinesFrom(chunks, "")

\* for line in lines.lines() { if line == string_to_find { return true } },
\* over the content read from the file.
check_string_in_file(content, string_to_find) ==
    \E i \in 1..Len(Lines(content)) : Lines(content)[i] = string_to_find

\* ------------------------------------------------ vocabulary of the claims
LogLabels == {"lg_plock", "lg_pptr", "lg_plen", "lg_format", "lg_llock",
              "lg_lread", "lg_match", "lg_console", "lg_open", "lg_write",
              "lg_lf"}
SetLevelLabels == {"sl_lock", "sl_store"}
SetPathLabels == {"sp_lock", "sp_ptr", "sp_len"}

\* This step is a step of thread th (every step of a thread moves its pc).
StepOf(th) == pc'[th] # pc[th]

\* This step is the return of th's log call.
LogReturns(th) == pc[th] \in LogLabels /\ pc'[th] = "idle"

\* The filtering table of the specification: the (level, type) pairs that
\* are emitted.
EmitTable ==
    {<<"Verbose", "Info">>, <<"Verbose", "Debug">>, <<"Verbose", "Warning">>,
     <<"Verbose", "Error">>,
     <<"Debug", "Debug">>, <<"Debug", "Warning">>, <<"Debug", "Error">>,
     <<"Default", "Warning">>, <<"Default", "Error">>,
     <<"ErrorsOnly", "Error">>}

\* The labels of log after the match on level: the message is being emitted.
EmitLabels == {"lg_console", "lg_open", "lg_write", "lg_lf"}

\* ---------------------------------------------------------------- claims
\* C1: a log call that read the stored level lv emits a message of type ty
\* (goes on to the console write and the file sink, and returns a non-empty
\* string) exactly when the pair <<lv, ty>> is in the filtering table;
\* otherwise it returns Ok("") at the match.  The level it filters with is
\* the stored level at the moment it read it.
C1_EmitMatchesTable ==
    [][\A th \in Threads :
         /\ (pc[th] = "lg_lread" /\ StepOf(th)) => level'[th] = LOG_LEVEL
         /\ (pc[th] = "lg_match" /\ StepOf(th)) =>
               IF <<level[th], t[th]>> \in EmitTable
                 THEN pc'[th] = "lg_console"
                 ELSE pc'[th] = "idle" /\ ret'[th] = Ok("")
         /\ (pc[th] = "lg_console" /\ StepOf(th)) =>
               /\ <<level[th], t[th]>> \in EmitTable
               /\ \/ stdout' = Append(stdout, formatted_message[th])
                  \/ stderr' = Append(stderr, formatted_message[th])
         /\ (pc[th] = "lg_write" /\ StepOf(th) /\ pc'[th] = "lg_lf") =>
               /\ <<level[th], t[th]>> \in EmitTable
               /\ fs'[TextOf(path[th])] =
                      Append(fs[TextOf(path[th])], formatted_message[th])
         /\ (LogReturns(th) /\ ret'[th].kind = "ok") =>
               (ret'[th].val # "" <=> <<level[th], t[th]>> \in EmitTable)
      ]_vars

\* C1 witness: a call that read level Debug is emitting a Debug message,
\* while the other thread's call of type Info was suppressed.
C1_Witness ==
    \E th \in Threads, other \in Threads :
        /\ pc[th] = "lg_console"
        /\ level[th] = "Debug"
        /\ t[th] = "Debug"
        /\ other # th
        /\ ret[other] = Ok("")

\* C2: a suppressed log call has no side effect.  No step of a log call up
\* to and including the match on level writes to stdout, to stderr or to a
\* file, or creates one; and when the pair is not in the table the match
\* returns Ok("") whatever the effective path is (also a path that cannot
\* be opened), so no open is attempted and no error is returned.
C2_SuppressedNoEffect ==
    [][\A th \in Threads :
         /\ (pc[th] \in LogLabels \ EmitLabels /\ StepOf(th)) =>
               (stdout' = stdout /\ stderr' = stderr /\ fs' = fs)
         /\ (pc[th] = "lg_match" /\ StepOf(th)
               /\ <<level[th], t[th]>> \notin EmitTable) =>
               (ret'[th] = Ok("") /\ pc'[th] = "idle")
      ]_vars

\* C2 witness: the only log call made has returned Ok("") with the stored
\* path set to a path that cannot be opened; nothing was printed and no
\* file exists.
C2_Witness ==
    \E th \in Threads :
        /\ ret[th] = Ok("")
        /\ nlogs = 1
        /\ \A other \in Threads : pc[other] = "idle"
        /\ LOG_PATH = StringOf(BadPath)
        /\ stdout = <<>> /\ stderr = <<>>
        /\ \A f \in FilePaths : fs[f] = NoFile

\* The last line of a file, "" when it has none.
LastLine(chunks) ==
    IF Lines(chunks) = <<>> THEN "" ELSE Lines(chunks)[Len(Lines(chunks))]

\* C3 (as claimed): when a log call with a non-empty effective path returns
\* Ok(s), the file at that path exists, its earlier content is still in
\* front, its last line is s, and no other file was changed by the step.
C3_AppendsOneLine ==
    [][\A th \in Threads :
         (pc[th] = "lg_lf" /\ StepOf(th) /\ ret'[th].kind = "ok") =>
            /\ fs'[TextOf(path[th])] # NoFile
            /\ fs'[TextOf(path[th])] = Append(fs[TextOf(path[th])], LF)
            /\ \A g \in FilePaths \ {TextOf(path[th])} : fs'[g] = fs[g]
            /\ LastLine(fs'[TextOf(path[th])]) = ret'[th].val
      ]_vars

\* C4: the effective path of log(m, t, Some(Q)) is Q whatever path is
\* stored, and the stored path is the effective path only when the override
\* is None.  With a non-empty override Q no step of the call changes a file
\* other than Q (the file at the stored path P # Q is left as it is), and
\* its text write appends the formatted message to Q.
C4_OverrideIsTheSink ==
    [][\A th \in Threads :
         (pc[th] \in LogLabels /\ StepOf(th)) =>
            /\ pc[th] = "lg_plen" =>
                  path'[th] = IF p[th].some THEN StringOf(p[th].val) ELSE LOG_PATH
            /\ (p[th].some /\ p[th].val # "") =>
                  \A f \in FilePaths \ {p[th].val} : fs'[f] = fs[f]
            /\ (p[th].some /\ pc[th] = "lg_write" /\ pc'[th] = "lg_lf") =>
                  fs'[p[th].val] = Append(fs[p[th].val], formatted_message[th])
            /\ (~p[th].some /\ pc[th] \in EmitLabels) =>
                  \A f \in FilePaths \ {TextOf(default_path[th])} : fs'[f] = fs[f]
      ]_vars

\* C4 witness: a call that read the stored path a.log and was given the
\* override b.log has written its text to b.log; a.log does not exist.
C4_Witness ==
    \E th \in Threads :
        /\ pc[th] = "lg_lf"
        /\ p[th] = Some("b.log")
        /\ default_path[th] = StringOf("a.log")
        /\ fs["b.log"] = <<formatted_message[th]>>
        /\ fs["a.log"] = NoFile

\* C5: a log call with the override Some("") has no file sink, whatever
\* path is stored: none of its steps changes or creates a file, it never
\* reaches the open or the writes, and when it is emitted its console step
\* prints the formatted message to one console and returns it in Ok.
C5_EmptyOverrideNoFile ==
    [][\A th \in Threads :
         (pc[th] \in LogLabels /\ StepOf(th) /\ p[th] = Some("")) =>
            /\ fs' = fs
            /\ pc[th] \notin {"lg_open", "lg_write", "lg_lf"}
            /\ pc'[th] \notin {"lg_open", "lg_write", "lg_lf"}
            /\ pc[th] = "lg_console" =>
                  /\ formatted_message[th] # ""
                  /\ ret'[th] = Ok(formatted_message[th])
                  /\ pc'[th] = "idle"
                  /\ \/ stdout' = Append(stdout, formatted_message[th])
                     \/ stderr' = Append(stderr, formatted_message[th])
      ]_vars

\* C5 witness: an emitted call with override Some("") that read the stored
\* path a.log has resolved its effective path to the empty string.
C5_Witness ==
    \E th \in Threads :
        /\ pc[th] = "lg_console"
        /\ p[th] = Some("")
        /\ default_path[th] = StringOf("a.log")
        /\ path[th] = StringOf("")
        /\ LOG_PATH = StringOf("a.log")

\* C6 (as claimed): a log call of type Error never returns Ok(""), and when
\* it returns Ok(s) with a non-empty effective path, s is a line of the
\* file at that path.
C6_ErrorAlwaysLogged ==
    [][\A th \in Threads :
         (LogReturns(th) /\ t[th] = "Error") =>
            /\ ret'[th] # Ok("")
            /\ (ret'[th].kind = "ok" /\ ~IsEmptyString(path[th])) =>
                  check_string_in_file(fs'[TextOf(path[th])], ret'[th].val)
      ]_vars

\* The formatted message of th's call is on one of the consoles.
OnConsole(th) ==
    \/ \E i \in 1..Len(stdout) : stdout[i] = formatted_message[th]
    \/ \E i \in 1..Len(stderr) : stderr[i] = formatted_message[th]

\* C7 (as claimed): a log call returns Err only from a file step (the open
\* or a write); the failing step changes no file and no console, the
\* console line of the call is already written, and the call has appended
\* no line to the file: what it wrote to the file reads as no line.
C7_FailureAppendsNothing ==
    [][\A th \in Threads :
         (LogReturns(th) /\ ret'[th] = Err) =>
            /\ pc[th] \in {"lg_open", "lg_write", "lg_lf"}
            /\ fs' = fs /\ stdout' = stdout /\ stderr' = stderr
            /\ OnConsole(th)
            /\ Lines(appended[th]) = <<>>
      ]_vars

\* The value a cell holds by the setter calls completed so far: the
\* argument of the last one, or the initial value.
CurrentLevel == IF last_set.level = Never THEN "Default" ELSE last_set.level
CurrentPath == IF last_set.path = Never THEN "" ELSE last_set.path

\* C8: the stored level and path are never corrupted.  Whenever a cell's
\* mutex is free the cell holds, whole, its initial value or the argument
\* of the last completed setter call on it (so also once all setters have
\* returned); and every value a log call reads from a cell is that whole
\* value, never the buffer of one path with the length of another.
C8_NoCorruption ==
    [][/\ level_mutex' = NoThread => LOG_LEVEL' = CurrentLevel'
       /\ path_mutex' = NoThread => LOG_PATH' = StringOf(CurrentPath')
       /\ LOG_LEVEL' \in LogLevel
       /\ \A th \in Threads :
             /\ (pc[th] = "lg_plen" /\ StepOf(th)) =>
                   /\ default_path'[th] = StringOf(CurrentPath)
                   /\ CurrentPath \in {""} \cup StoredPaths
             /\ (pc[th] = "lg_lread" /\ StepOf(th)) =>
                   /\ level'[th] = CurrentLevel
                   /\ level'[th] \in LogLevel
      ]_vars

\* C8 witness: set_path is between its two stores, so LOG_PATH holds the
\* buffer of the new path with the length of the old one, while a log call
\* and nothing else waits for the path mutex.
C8_Witness ==
    \E th \in Threads, other \in Threads :
        /\ pc[th] = "sp_len"
        /\ LOG_PATH = [ptr |-> BadPath, len |-> Len("a.log")]
        /\ pc[other] = "lg_plock"
        /\ path_mutex = th

\* C9: a thread holds a mutex only for the single read or write of its
\* cell.  No thread holds both mutexes; the path mutex is held only between
\* the lock and the end of the store or clone of LOG_PATH, the level mutex
\* only between the lock and the store or clone of LOG_LEVEL; so a log call
\* has released the path mutex before it locks the level mutex and holds
\* none while it prints, opens or writes, and a setter never holds the
\* other cell's mutex.
C9_MutexDiscipline ==
    \A th \in Threads :
        /\ ~(path_mutex = th /\ level_mutex = th)
        /\ path_mutex = th => pc[th] \in {"sp_ptr", "sp_len", "lg_pptr", "lg_plen"}
        /\ level_mutex = th => pc[th] \in {"sl_store", "lg_lread"}
        /\ pc[th] \in {"lg_format", "lg_llock", "lg_match"} \cup EmitLabels =>
              (path_mutex # th /\ level_mutex # th)
        /\ pc[th] \in SetLevelLabels => path_mutex # th
        /\ pc[th] \in SetPathLabels => level_mutex # th

\* C9 witness: one log call holds the level mutex for its read while
\* another log call holds the path mutex for its clone.
C9_Witness ==
    \E th \in Threads, other \in Threads :
        /\ pc[th] = "lg_lread" /\ level_mutex = th
        /\ pc[other] = "lg_plen" /\ path_mutex = other

\* C10: under fair scheduling every call returns.  A thread inside a call
\* of set_level, set_path or log (waiting for a mutex included) is
\* eventually outside it again, whatever the other thread does; a call
\* leaves its wait for a mutex only by getting the mutex, so none waits
\* for ever and no state is a deadlock on the two mutexes.
C10_EveryCallReturns ==
    \A th \in Threads : (pc[th] # "idle") ~> (pc[th] = "idle")

\* C10 witness: a log call waits for the level mutex, which a set_level
\* call of the other thread holds.
C10_Witness ==
    \E th \in Threads, other \in Threads :
        /\ pc[th] = "lg_llock"
        /\ pc[other] = "sl_store"
        /\ level_mutex = other

\* C11: set_level(L) overwrites the stored level.  Its store leaves L in
\* LOG_LEVEL and returns; until the next store of a set_level call the
\* stored level is the L of the last completed call, whatever was stored
\* before; and a log call that reads the level then filters with that L.
C11_SetLevelOverwrites ==
    [][/\ \A th \in Threads :
             /\ (pc[th] = "sl_store" /\ StepOf(th)) =>
                   /\ arg[th] \in LogLevel
                   /\ LOG_LEVEL' = arg[th]
                   /\ pc'[th] = "idle"
             /\ (pc[th] = "lg_lread" /\ StepOf(th) /\ last_set.level # Never) =>
                   level'[th] = last_set.level
             /\ (pc[th] = "lg_match" /\ StepOf(th)) =>
                   (pc'[th] = "lg_console" <=> <<level[th], t[th]>> \in EmitTable)
       /\ (\A th \in Threads : ~(pc[th] = "sl_store" /\ StepOf(th))) =>
             LOG_LEVEL' = LOG_LEVEL
       /\ last_set.level' # Never => LOG_LEVEL' = last_set.level'
      ]_vars

\* C11 witness: two set_level calls have completed, the last with Verbose,
\* and a log call that read the level afterwards filters an Info message
\* with Verbose.
C11_Witness ==
    \E th \in Threads :
        /\ nsets = 2
        /\ last_set = [level |-> "Verbose", path |-> Never]
        /\ LOG_LEVEL = "Verbose"
        /\ pc[th] = "lg_match"
        /\ level[th] = "Verbose"
        /\ t[th] = "Info"
        /\ \A other \in Threads \ {th} : pc[other] = "idle"

\* C12: set_path(P) overwrites the stored path with P, for the empty
\* string and for a path that cannot be opened as well.  Every step of the
\* call proceeds to the next without a failing branch, returns nothing,
\* and leaves the files and both console streams alone.  The stored path
\* is the P of the last completed call, a log call clones exactly that
\* string, and a log call without override that cloned the empty string
\* returns after the console step with the files unchanged.
C12_SetPathOverwrites ==
    [][/\ \A th \in Threads :
             /\ (pc[th] = "sp_len" /\ StepOf(th)) =>
                   /\ LOG_PATH' = [ptr |-> arg[th], len |-> Len(arg[th])]
                   /\ pc'[th] = "idle"
             /\ (pc[th] \in SetPathLabels /\ StepOf(th)) =>
                   /\ fs' = fs /\ stdout' = stdout /\ stderr' = stderr
                   /\ ret' = ret
                   /\ pc'[th] \in SetPathLabels \cup {"idle"}
             /\ (pc[th] = "lg_plen" /\ StepOf(th) /\ last_set.path # Never) =>
                   /\ default_path'[th].len = Len(last_set.path)
                   /\ TextOf(default_path'[th]) = last_set.path
             /\ (pc[th] = "lg_console" /\ StepOf(th) /\ ~p[th].some
                   /\ default_path[th].len = 0) =>
                   (pc'[th] = "idle" /\ fs' = fs /\ ret'[th].kind = "ok")
       /\ (\A th \in Threads : pc[th] \notin SetPathLabels) =>
             LOG_PATH' = LOG_PATH
       /\ (last_set.path' # Never /\ path_mutex' = NoThread) =>
             (LOG_PATH'.len = Len(last_set.path') /\ TextOf(LOG_PATH') = last_set.path')
      ]_vars

\* C12 witness: a.log was written through the stored path, then
\* set_path("") completed, and a log call without override that cloned the
\* empty path is at its console step.
C12_Witness ==
    \E th \in Threads :
        /\ fs["a.log"] # NoFile
        /\ last_set.path = ""
        /\ LOG_PATH.len = 0
        /\ pc[th] = "lg_console"
        /\ p[th] = None
        /\ default_path[th].len = 0

\* C12 second case: a path that cannot be opened has been stored as it is.
C12_InvalidPathStored ==
    /\ last_set.path = BadPath
    /\ LOG_PATH = [ptr |-> BadPath, len |-> Len(BadPath)]
    /\ \A f \in FilePaths : fs[f] = NoFile

\* C13: an emitted call writes one line to one console stream: to the
\* error stream when its type is Error, to the standard output otherwise.
\* The console step appends one line to that stream and nothing to the
\* other, no other step of a log call writes to either stream, and a call
\* passes the console step once, coming from the level match.
C13_OneConsoleSink ==
    [][\A th \in Threads :
         /\ (pc[th] = "lg_console" /\ StepOf(th)) =>
               /\ <<level[th], t[th]>> \in EmitTable
               /\ IF t[th] = "Error"
                    THEN /\ Len(stderr') = Len(stderr) + 1
                         /\ SubSeq(stderr', 1, Len(stderr)) = stderr
                         /\ stderr'[Len(stderr')] = formatted_message[th]
                         /\ stdout' = stdout
                    ELSE /\ Len(stdout') = Len(stdout) + 1
                         /\ SubSeq(stdout', 1, Len(stdout)) = stdout
                         /\ stdout'[Len(stdout')] = formatted_message[th]
                         /\ stderr' = stderr
               /\ pc'[th] \in {"lg_open", "idle"}
         /\ (pc[th] \in LogLabels \ {"lg_console"} /\ StepOf(th)) =>
               /\ stdout' = stdout /\ stderr' = stderr
               /\ pc'[th] = "lg_console" => pc[th] = "lg_match"
         /\ (pc[th] = "idle" /\ StepOf(th)) => pc'[th] # "lg_console"
      ]_vars

\* C13 witness: a Warning went to the standard output and an Error to the
\* error stream, one line each, and both calls have returned.
C13_Witness ==
    /\ Len(stdout) = 1 /\ Len(stderr) = 1
    /\ \E time \in Times : /\ stdout[1] = Format("Warning", time, "x")
                            /\ stderr[1] = Format("Error", time, "x")
    /\ nlogs = 2
    /\ \A th \in Threads : pc[th] = "idle"

\* C14: the lines one thread appends to one file stay in the order of its
\* calls, one line per call, whatever other threads append in between:
\* when a call of a thread returns after appending to the file its previous
\* appending call wrote to, the file read line by line holds the line the
\* previous call returned and, further down, the line this call returns.
C14_PerThreadOrder ==
    [][\A th \in Threads :
         (/\ pc[th] = "lg_lf" /\ pc'[th] = "idle" /\ ret'[th].kind = "ok"
          /\ last_log[th].path = TextOf(path[th])) =>
            \E i, j \in 1..Len(Lines(fs'[TextOf(path[th])])) :
                /\ i < j
                /\ Lines(fs'[TextOf(path[th])])[i] = last_log[th].line
                /\ Lines(fs'[TextOf(path[th])])[j] = ret'[th].val
      ]_vars

\* C15: before any setter is called the stored level is Default and the
\* stored path is empty.  A log call without override that runs then
\* filters with Default: Info and Debug return Ok("") with no output,
\* Warning and Error go to the console and the call returns its line
\* after the console step; no step of such a call changes a file.
C15_InitialDefaults ==
    [][nsets = 0 =>
         /\ LOG_LEVEL = "Default"
         /\ LOG_PATH = [ptr |-> "", len |-> 0]
         /\ \A th \in Threads :
               (pc[th] \in LogLabels /\ StepOf(th) /\ ~p[th].some) =>
                 /\ fs' = fs
                 /\ pc[th] = "lg_lread" => level'[th] = "Default"
                 /\ pc[th] = "lg_match" =>
                       IF t[th] \in {"Info", "Debug"}
                         THEN /\ pc'[th] = "idle" /\ ret'[th] = Ok("")
                              /\ stdout' = stdout /\ stderr' = stderr
                         ELSE pc'[th] = "lg_console"
                 /\ pc[th] = "lg_console" =>
                       /\ t[th] \in {"Warning", "Error"}
                       /\ Len(stdout') + Len(stderr') = Len(stdout) + Len(stderr) + 1
                       /\ pc'[th] = "idle"
                       /\ ret'[th] = Ok(formatted_message[th])
                 /\ pc'[th] \notin {"lg_open", "lg_write", "lg_lf"}
      ]_vars

\* C15 witness: no setter has been called, one log call without override
\* has returned Ok("") with nothing printed, and another, of type Warning,
\* is at its console step with the level Default; no file exists.
C15_Witness ==
    \E th \in Threads :
        /\ nsets = 0
        /\ pc[th] = "lg_console" /\ p[th] = None
        /\ t[th] = "Warning" /\ level[th] = "Default"
        /\ \A other \in Threads \ {th} : pc[other] = "idle" /\ ret[other] = Ok("")
        /\ stdout = <<>> /\ stderr = <<>>
        /\ \A f \in FilePaths : fs[f] = NoFile

\* C16: a log call does not read the path and the level together.  The
\* path is cloned in one critical section and the level in a later one;
\* the step that ends the clone of the path reads no level, the step that
\* reads the level leaves the cloned path as it is, and in between the call
\* holds neither mutex, so that setters can run to completion there.
C16_ReadsNotAtomic ==
    [][\A th \in Threads :
         /\ pc[th] \in {"lg_format", "lg_llock"} =>
               /\ path_mutex # th /\ level_mutex # th
               /\ level[th] = NoValue
         /\ (pc[th] = "lg_plen" /\ StepOf(th)) =>
               /\ default_path'[th].len = LOG_PATH.len
               /\ level'[th] = NoValue
               /\ pc'[th] = "lg_format"
         /\ (pc[th] = "lg_lread" /\ StepOf(th)) =>
               /\ level'[th] = LOG_LEVEL
               /\ default_path'[th] = default_path[th]
               /\ path'[th] = path[th]
         /\ \A other \in Threads \ {th} :
               (pc[th] \in {"lg_format", "lg_llock"} /\ StepOf(other)
                 /\ pc[other] \in SetLevelLabels \cup SetPathLabels) =>
                   (default_path'[th] = default_path[th] /\ level'[th] = NoValue)
      ]_vars

\* C16 witness: a log call without override holds the new path a.log with
\* the old level Default, after set_path("a.log") and then
\* set_level(Verbose) have completed.
C16_Witness ==
    \E th \in Threads :
        /\ pc[th] = "lg_match" /\ p[th] = None
        /\ default_path[th] = StringOf("a.log")
        /\ level[th] = "Default"
        /\ last_set = [level |-> "Verbose", path |-> "a.log"]
        /\ LOG_LEVEL = "Verbose"

\* C16 second case: a log call without override holds the old, empty path
\* with the new level Verbose, after both setters have completed.
C16_OldPathNewLevel ==
    \E th \in Threads :
        /\ pc[th] = "lg_match" /\ p[th] = None
        /\ default_path[th] = StringOf("")
        /\ level[th] = "Verbose"
        /\ last_set = [level |-> "Verbose", path |-> "a.log"]
        /\ LOG_PATH = StringOf("a.log")

\* The display names as the claim lists them.
ClaimedName(ty) ==
    CASE ty = "Info" -> "INFO"
      [] ty = "Debug" -> "DEBUG"
      [] ty = "Warning" -> "WARNING"
      [] ty = "Error" -> "ERROR"

\* C17 (as claimed): the string of a call is built once, as "[" + display
\* name + "] " + timestamp + " -> " + message, and is not empty; the
\* console step prints it; a call returns Ok("") exactly from the level
\* match; and when an emitted call returns Ok(s), s is that string, it is
\* on the console and, with a non-empty effective path, it is a line of
\* the file at that path.
C17_SameStringEverywhere ==
    [][\A th \in Threads :
         /\ (pc[th] = "lg_format" /\ StepOf(th)) =>
               /\ \E time \in Times :
                     formatted_message'[th] =
                        "[" \o ClaimedName(t[th]) \o "] " \o time \o " -> " \o message[th]
               /\ formatted_message'[th] # ""
         /\ (pc[th] \in LogLabels \ {"lg_plock", "lg_pptr", "lg_plen", "lg_format"}
               /\ StepOf(th) /\ pc'[th] # "idle") =>
               formatted_message'[th] = formatted_message[th]
         /\ (pc[th] = "lg_console" /\ StepOf(th)) =>
               IF t[th] = "Error"
                 THEN stderr' = Append(stderr, formatted_message[th])
                 ELSE stdout' = Append(stdout, formatted_message[th])
         /\ (LogReturns(th) /\ ret'[th].kind = "ok") =>
               /\ ret'[th].val = "" <=> pc[th] = "lg_match"
               /\ pc[th] # "lg_match" =>
                     /\ ret'[th].val = formatted_message[th]
                     /\ \/ \E i \in 1..Len(stdout') : stdout'[i] = ret'[th].val
                        \/ \E i \in 1..Len(stderr') : stderr'[i] = ret'[th].val
                     /\ ~IsEmptyString(path[th]) =>
                           \E i \in 1..Len(Lines(fs'[TextOf(path[th])])) :
                               Lines(fs'[TextOf(path[th])])[i] = ret'[th].val
      ]_vars

\* C17, the part that holds: as C17_SameStringEverywhere, but for the file
\* it states what the call itself writes, the string and then a line feed,
\* and not what the file reads as afterwards.
C17_SameStringWritten ==
    [][\A th \in Threads :
         /\ (pc[th] = "lg_format" /\ StepOf(th)) =>
               /\ \E time \in Times :
                     formatted_message'[th] =
                        "[" \o ClaimedName(t[th]) \o "] " \o time \o " -> " \o message[th]
               /\ formatted_message'[th] # ""
         /\ (pc[th] \in LogLabels \ {"lg_plock", "lg_pptr", "lg_plen", "lg_format"}
               /\ StepOf(th) /\ pc'[th] # "idle") =>
               formatted_message'[th] = formatted_message[th]
         /\ (pc[th] = "lg_console" /\ StepOf(th)) =>
               IF t[th] = "Error"
                 THEN stderr' = Append(stderr, formatted_message[th])
                 ELSE stdout' = Append(stdout, formatted_message[th])
         /\ (pc[th] = "lg_write" /\ StepOf(th) /\ pc'[th] = "lg_lf") =>
               fs'[TextOf(path[th])] = Append(fs[TextOf(path[th])], formatted_message[th])
         /\ (pc[th] = "lg_lf" /\ StepOf(th) /\ ret'[th].kind = "ok") =>
               fs'[TextOf(path[th])] = Append(fs[TextOf(path[th])], LF)
         /\ (LogReturns(th) /\ ret'[th].kind = "ok") =>
               /\ ret'[th].val = "" <=> pc[th] = "lg_match"
               /\ pc[th] # "lg_match" => ret'[th].val = formatted_message[th]
      ]_vars

\* C18: log returns an error only from a file step of an emitted call
\* whose effective path is not empty; a call whose effective path is
\* empty, by an empty override or by no override and an empty stored
\* path, returns Ok; and no step of set_level or set_path fails or returns
\* anything.
C18_ErrorsOnlyFromFile ==
    [][\A th \in Threads :
         /\ (LogReturns(th) /\ ret'[th].kind # "ok") =>
               /\ ret'[th] = Err
               /\ pc[th] \in {"lg_open", "lg_write", "lg_lf"}
               /\ <<level[th], t[th]>> \in EmitTable
               /\ path[th].len # 0
               /\ IF p[th].some THEN p[th].val # "" ELSE default_path[th].len # 0
         /\ (LogReturns(th)
               /\ IF p[th].some THEN p[th].val = "" ELSE default_path[th].len = 0) =>
               /\ ret'[th].kind = "ok"
               /\ pc[th] \in {"lg_match", "lg_console"}
         /\ (pc[th] \in SetLevelLabels \cup SetPathLabels /\ StepOf(th)) =>
               /\ ret' = ret
               /\ pc'[th] \in SetLevelLabels \cup SetPathLabels \cup {"idle"}
      ]_vars

\* C18 witness: one log call has returned an error and another has
\* returned its line in Ok, and no file exists: the first failed at the
\* open of a non-empty path, the second had an empty effective path.
C18_Witness ==
    \E th \in Threads :
        /\ pc[th] = "idle" /\ ret[th] = Err
        /\ \A other \in Threads \ {th} :
              /\ pc[other] = "idle"
              /\ ret[other].kind = "ok" /\ ret[other].val # ""
        /\ \A f \in FilePaths : fs[f] = NoFile

\* C19: a log call reads the stored path before it reads the stored
\* level.  When set_level(L1) has returned before set_path(P1) is called,
\* a log call without override that holds the path P1 has read the level
\* after that, so once it has a level it is L1: the path P1 is never used
\* with the level L0.
C19_PathBeforeLevel ==
    \A th \in Threads :
        /\ (pc[th] \in LogLabels /\ level[th] # NoValue) =>
              pc[th] \in {"lg_match", "lg_console", "lg_open", "lg_write", "lg_lf"}
        /\ (pc[th] \in {"lg_pptr", "lg_plen"}) => level[th] = NoValue
        /\ (pc[th] \in LogLabels /\ ~p[th].some /\ default_path[th].len # 0
              /\ level[th] # NoValue) =>
              /\ last_set.level # Never
              /\ TextOf(default_path[th]) = last_set.path
              /\ level[th] = last_set.level
              /\ level[th] # "Default"

\* C19 witness: a log call without override uses the old, empty path with
\* the new level: it is printing a Debug message, which the initial level
\* suppresses, while the path P1 is already stored.
C19_Witness ==
    \E th \in Threads :
        /\ pc[th] = "lg_console" /\ p[th] = None
        /\ default_path[th].len = 0
        /\ level[th] = "Debug" /\ t[th] = "Debug"
        /\ last_set = [level |-> "Debug", path |-> "a.log"]

\* C19, the pair that is allowed: the new path with the new level.
C19_NewPathNewLevel ==
    \E th \in Threads :
        /\ pc[th] = "lg_match" /\ p[th] = None
        /\ default_path[th] = StringOf("a.log")
        /\ level[th] = "Debug"

\* C20: each operation changes its own part of the state only.  No step of
\* a log call, the call itself included, changes the stored level or the
\* stored path; no step of set_level changes the stored path or touches
\* the path mutex; no step of set_path changes the stored level or touches
\* the level mutex; and no step of a setter writes to a console stream or
\* to a file.
C20_FrameEffects ==
    [][\A th \in Threads :
         StepOf(th) =>
           /\ (pc[th] \in LogLabels \/ pc'[th] = "lg_plock") =>
                 /\ LOG_LEVEL' = LOG_LEVEL
                 /\ LOG_PATH' = LOG_PATH
           /\ (pc[th] \in SetLevelLabels \/ pc'[th] = "sl_lock") =>
                 /\ LOG_PATH' = LOG_PATH /\ path_mutex' = path_mutex
                 /\ stdout' = stdout /\ stderr' = stderr /\ fs' = fs
           /\ (pc[th] \in SetPathLabels \/ pc'[th] = "sp_lock") =>
                 /\ LOG_LEVEL' = LOG_LEVEL /\ level_mutex' = level_mutex
                 /\ stdout' = stdout /\ stderr' = stderr /\ fs' = fs
      ]_vars

\* C20 witness: a log call with the override b.log has appended its line
\* and returned, and the stored path is still the a.log and the stored
\* level still the Verbose that the setters left there.
C20_Witness ==
    \E th \in Threads :
        /\ pc[th] = "idle" /\ ret[th].kind = "ok"
        /\ last_log[th].path = "b.log"
        /\ fs["b.log"] # NoFile
        /\ last_set = [level |-> "Verbose", path |-> "a.log"]
        /\ LOG_PATH = StringOf("a.log")
        /\ LOG_LEVEL = "Verbose"

====
